---- MODULE Spec2Model ----
(***************************************************************************)
(* The useDrawingCanvas hook of react-hooks-use-drawing-canvas.            *)
(*                                                                         *)
(* src/src/index.ts holds two drafts of the hook: the inline-timer draft   *)
(* (lines 53-90) and the debounceDraw draft (lines 122-206).  Both are     *)
(* modelled, side by side, and driven by the same sequence of renders:     *)
(* every per-hook piece of state is a field of ad[dr], dr \in Drafts.      *)
(*                                                                         *)
(* React is the scheduler.  A render whose dependency list                 *)
(* [draw, context, width, height] changed commits by running the previous  *)
(* layout effect's cleanup and then the layout effect; setTimeout is a     *)
(* set of pending timers, each holding the values its closure captured.    *)
(***************************************************************************)
EXTENDS Integers, Sequences, FiniteSets, TLC

\* ------------------------------------------------------------------ bounds
MaxElements == 2     \* canvas elements the reference can be bound to
MaxCycles == 3       \* layout-effect runs (redraw cycles) per hook instance
MaxTime == 100       \* the clock stops here

\* --------------------------------------------------------------- constants
Delay == 50          \* the debounce time, in milliseconds
TickStep == Delay \div 5

Drafts == {"inline", "debounce"}
Null == 0
Elements == 1..MaxElements

\* The drawing methods a caller passes: README's drawRedCircle returns
\* nothing, README's drawScanLine returns a cleanup closure, and a drawing
\* method may throw.
Draws == {"drawRedCircle", "drawScanLine", "drawThrows"}

\* The sizes useCanvasSize reports.
Sizes == {<<0, 0>>, <<300, 150>>, <<305, 152>>}

\* What the user's motion preference is, as the platform reports it.
Motions == {"no-preference", "reduce"}

VARIABLES
    now,      \* the clock of the timer facility
    draw,     \* the drawing method passed in the current render
    size,     \* <<width, height>> returned by useCanvasSize in the current render
    motion,   \* the platform's prefers-reduced-motion setting
    ad        \* ad[dr]: the state of the hook instance of draft dr

vars == <<now, draw, size, motion, ad>>

\* ----------------------------------------------------------------- values

\* The value the drawing method returns: void | (() => void), or a throw.
DrawResult(d) ==
    CASE d = "drawRedCircle" -> "void"
      [] d = "drawScanLine" -> "fn"
      [] OTHER -> "throw"

\* window.matchMedia(query).matches under the platform setting m.  A query
\* whose value is not one of the feature's keywords matches nothing.
MatchMedia(query, m) ==
    CASE query = "(prefers-reduced-motion: no-preference)" -> m = "no-preference"
      [] query = "(prefers-reduced-motion: reduce)" -> m = "reduce"
      [] OTHER -> FALSE

\* prefersReducedMotion as the draw closure computes it when it runs.
PrefersReducedMotion(m) ==
    ~MatchMedia("(prefers-reduced-motion: no-preferece)", m)

DrawEvent(t, m) ==
    [op |-> "draw", id |-> t.id, draw |-> t.draw, ctx |-> t.ctx,
     w |-> t.w, h |-> t.h, prm |-> PrefersReducedMotion(m),
     ret |-> DrawResult(t.draw)]

\* The arguments of the call draw(context, {width, height, prefersReducedMotion})
\* that the draw call e made, in order.
DrawArgs(e) ==
    <<e.ctx, [width |-> e.w, height |-> e.h, prefersReducedMotion |-> e.prm]>>

\* What a cleanUp variable holds: nothing yet (null in the inline draft,
\* undefined in debounceDraw), the undefined a drawing method returned, or the
\* closure returned by the draw call of timer `of`.
Unset == [kind |-> "unset", of |-> Null]
Returned(t) ==
    IF DrawResult(t.draw) = "fn" THEN [kind |-> "fn", of |-> t.id]
                                 ELSE [kind |-> "void", of |-> Null]

CleanUpEvent(id) ==
    [op |-> "cleanUp", id |-> id, draw |-> "", ctx |-> Null,
     w |-> 0, h |-> 0, prm |-> FALSE, ret |-> ""]

\* The state of a hook instance before it is mounted.
NewAdapter ==
    [phase |-> "init",                     \* init, mounted, unmounted
     ref |-> Null,                         \* ref.current
     context |-> Null,                     \* the element whose 2d context is held
     canvas |-> [e \in Elements |-> <<300, 150>>],  \* backing width, height
     effect |-> Null,                      \* the cleanup the layout effect returned
     inst |-> << >>,                       \* the closures of the effect runs
     timers |-> {},                        \* setTimeout's pending callbacks
     log |-> << >>,                        \* draw and cleanUp calls, in order
     error |-> FALSE,                      \* an exception reached React
     steps |-> << >>,                      \* what the latest commit did, in order
     uncaught |-> 0,                       \* exceptions that left a timer callback
     lastTrigger |-> -Delay,               \* time of the latest redraw cycle
     burstFires |-> 0]                     \* draw calls since the burst began

\* ------------------------------------------------------------ debounceDraw

\* A debounceDraw that drops its time: setTimeout(callback) runs at once.
DebounceDrawImmediate(a, d, s, time) ==
    LET id == Len(a.inst) + 1 IN
    [a EXCEPT !.inst = Append(@, [canceled |-> FALSE, cleanUp |-> Unset]),
              !.timers = @ \cup {[id |-> id, deadline |-> now, draw |-> d,
                                  ctx |-> a.context, w |-> s[1], h |-> s[2]]},
              !.steps = Append(@, "schedule"),
              !.effect = id]

\* A debounceDraw whose closure reads the drawing method of the render
\* before: a stale draw.
DebounceDrawStaleDraw(a, d, s, time) ==
    LET id == Len(a.inst) + 1 IN
    [a EXCEPT !.inst = Append(@, [canceled |-> FALSE, cleanUp |-> Unset]),
              !.timers = @ \cup {[id |-> id, deadline |-> now + time, draw |-> draw,
                                  ctx |-> a.context, w |-> s[1], h |-> s[2]]},
              !.steps = Append(@, "schedule"),
              !.effect = id]

\* debounceDraw(draw, time): a fresh closure (canceled, cleanUp) and a timer.
DebounceDraw(a, d, s, time) ==
    LET id == Len(a.inst) + 1 IN
    [a EXCEPT !.inst = Append(@, [canceled |-> FALSE, cleanUp |-> Unset]),
              !.timers = @ \cup {[id |-> id, deadline |-> now + time, draw |-> d,
                                  ctx |-> a.context, w |-> s[1], h |-> s[2]]},
              !.steps = Append(@, "schedule"),
              !.effect = id]

\* A cancel function that forgets the timer: no clearTimeout, no canceled flag.
CancelDrawKeepsTimer(a, id) == a

\* The function debounceDraw returns: clearTimeout, canceled = true, and the
\* expression statement `cleanUp`, which calls nothing.
CancelDraw(a, id) ==
    [a EXCEPT !.timers = {t \in @ : t.id # id},
              !.steps = Append(@, "cancel"),
              !.inst[id].canceled = TRUE]

\* A timer callback that tests the flag the wrong way round: if (canceled).
DebounceTimeoutInverted(a, t, m) ==
    IF a.inst[t.id].canceled
    THEN [a EXCEPT !.log = Append(@, DrawEvent(t, m)),
                   !.burstFires = @ + 1,
                   !.uncaught = IF DrawResult(t.draw) = "throw" THEN @ + 1 ELSE @,
                   !.inst[t.id].cleanUp =
                       IF DrawResult(t.draw) = "throw" THEN @ ELSE Returned(t)]
    ELSE a

\* A timer callback that catches what draw throws and tries once more, Delay
\* later.
DebounceTimeoutRetry(a, t, m) ==
    IF ~a.inst[t.id].canceled
    THEN IF DrawResult(t.draw) = "throw"
         THEN [a EXCEPT !.log = Append(@, DrawEvent(t, m)),
                        !.burstFires = @ + 1,
                        !.timers = IF \E i \in 1..Len(a.log) : a.log[i].id = t.id
                                   THEN @
                                   ELSE @ \cup {[t EXCEPT !.deadline = now + Delay]}]
         ELSE [a EXCEPT !.log = Append(@, DrawEvent(t, m)),
                        !.burstFires = @ + 1,
                        !.inst[t.id].cleanUp = Returned(t)]
    ELSE a

\* The timer callback of debounceDraw.
DebounceTimeout(a, t, m) ==
    IF ~a.inst[t.id].canceled
    THEN [a EXCEPT !.log = Append(@, DrawEvent(t, m)),
                   !.burstFires = @ + 1,
                   !.uncaught = IF DrawResult(t.draw) = "throw" THEN @ + 1 ELSE @,
                   !.inst[t.id].cleanUp =
                       IF DrawResult(t.draw) = "throw" THEN @ ELSE Returned(t)]
    ELSE a

\* ------------------------------------------------------- inline-timer draft

\* An effect whose cleanUp variable outlives the effect run: the new closure
\* starts with what the previous one held, not with null.
InlineScheduleSharedCleanUp(a, d, s, time) ==
    LET id == Len(a.inst) + 1 IN
    [a EXCEPT !.inst = Append(@, [canceled |-> FALSE,
                                  cleanUp |-> IF id = 1 THEN Unset
                                              ELSE a.inst[id - 1].cleanUp]),
              !.timers = @ \cup {[id |-> id, deadline |-> now + time, draw |-> d,
                                  ctx |-> a.context, w |-> s[1], h |-> s[2]]},
              !.steps = Append(@, "schedule"),
              !.effect = id]

\* let cleanUp = null; const timeout = setTimeout(..., 50)
InlineSchedule(a, d, s, time) ==
    LET id == Len(a.inst) + 1 IN
    [a EXCEPT !.inst = Append(@, [canceled |-> FALSE, cleanUp |-> Unset]),
              !.timers = @ \cup {[id |-> id, deadline |-> now + time, draw |-> d,
                                  ctx |-> a.context, w |-> s[1], h |-> s[2]]},
              !.steps = Append(@, "schedule"),
              !.effect = id]

\* The effect's cleanup: clearTimeout(timeout); if (cleanUp !== null) cleanUp().
\* cleanUp is undefined after a drawing method that returned nothing, and
\* calling it is a TypeError.
InlineCleanUp(a, id) ==
    LET cleared == [a EXCEPT !.timers = {t \in @ : t.id # id},
                             !.steps = Append(@, "cancel")] IN
    CASE a.inst[id].cleanUp.kind = "unset" -> cleared
      [] a.inst[id].cleanUp.kind = "fn" ->
            [cleared EXCEPT !.log = Append(@, CleanUpEvent(a.inst[id].cleanUp.of)),
                            !.steps = Append(@, "cleanUp")]
      [] OTHER -> [cleared EXCEPT !.error = TRUE]

\* The timer callback of the inline draft.
InlineTimeout(a, t, m) ==
    [a EXCEPT !.log = Append(@, DrawEvent(t, m)),
              !.burstFires = @ + 1,
              !.uncaught = IF DrawResult(t.draw) = "throw" THEN @ + 1 ELSE @,
              !.inst[t.id].cleanUp =
                  IF DrawResult(t.draw) = "throw" THEN @ ELSE Returned(t)]

\* ------------------------------------------------------------------ effects

\* useEffect(() => { if (!ref.current) return; setContext(getContext('2d')) }, [ref])
\* has2d: whether the element's getContext('2d') gives a context (not null).
RefEffect(a, has2d) ==
    IF a.ref = Null THEN a
    ELSE [a EXCEPT !.context = IF has2d THEN a.ref ELSE Null]

\* A layout effect that calls debounceDraw without returning what it returns:
\* React is given no cleanup to run.
LayoutEffectNoReturn(dr, a, d, s) ==
    IF a.context # Null
    THEN LET sized == [a EXCEPT !.canvas[a.context] = s,
                                !.steps = Append(@, "resize")] IN
         [(IF dr = "inline" THEN InlineSchedule(sized, d, s, Delay)
                            ELSE DebounceDraw(sized, d, s, Delay))
            EXCEPT !.effect = Null]
    ELSE [a EXCEPT !.effect = Null]

\* A layout effect that schedules the draw with the size of the canvas as it
\* was, and only then would resize it: the backing size is left unassigned.
LayoutEffectNoResize(dr, a, d, s) ==
    IF a.context # Null
    THEN IF dr = "inline" THEN InlineSchedule(a, d, s, Delay)
                          ELSE DebounceDraw(a, d, s, Delay)
    ELSE [a EXCEPT !.effect = Null]

\* A layout effect that calls debounceDraw first and sizes the canvas after.
LayoutEffectScheduleFirst(dr, a, d, s) ==
    IF a.context # Null
    THEN LET sched == IF dr = "inline" THEN InlineSchedule(a, d, s, Delay)
                                       ELSE DebounceDraw(a, d, s, Delay)
         IN [sched EXCEPT !.canvas[a.context] = s, !.steps = Append(@, "resize")]
    ELSE [a EXCEPT !.effect = Null]

\* A layout effect without the test `if (context)`: with no context held,
\* context.canvas throws.
LayoutEffectNoGuard(dr, a, d, s) ==
    IF a.context # Null
    THEN LET sized == [a EXCEPT !.canvas[a.context] = s,
                                !.steps = Append(@, "resize")] IN
         IF dr = "inline" THEN InlineSchedule(sized, d, s, Delay)
                          ELSE DebounceDraw(sized, d, s, Delay)
    ELSE [a EXCEPT !.effect = Null, !.error = TRUE]

\* The body of useLayoutEffect, run with the values of the current render.
LayoutEffect(dr, a, d, s) ==
    IF a.context # Null
    THEN LET sized == [a EXCEPT !.canvas[a.context] = s,
                                !.steps = Append(@, "resize")] IN
         IF dr = "inline" THEN InlineSchedule(sized, d, s, Delay)
                          ELSE DebounceDraw(sized, d, s, Delay)
    ELSE [a EXCEPT !.effect = Null]

\* React calls what the previous run of the layout effect returned, if anything.
EffectCleanUp(dr, a) ==
    IF a.effect = Null THEN a
    ELSE LET c == IF dr = "inline" THEN InlineCleanUp(a, a.effect)
                                   ELSE CancelDraw(a, a.effect)
         IN [c EXCEPT !.effect = Null]

\* Bookkeeping of bursts: a redraw cycle that starts Delay or more after the
\* previous one starts a new burst.
NoteTrigger(a) ==
    [a EXCEPT !.burstFires = IF now - a.lastTrigger >= Delay THEN 0 ELSE @,
              !.lastTrigger = now]

\* An exception thrown while React commits unmounts the component.
Crash(a) == [a EXCEPT !.phase = "unmounted", !.ref = Null]

\* A render in which an entry of [draw, context, width, height] changed.
Commit(dr, a, d, s) ==
    LET c == EffectCleanUp(dr, [a EXCEPT !.steps = << >>]) IN
    IF c.error THEN Crash(c)
    ELSE IF c.context # Null THEN LayoutEffect(dr, NoteTrigger(c), d, s)
    ELSE LayoutEffect(dr, c, d, s)

\* React unmounts the component: the layout effect's cleanup runs and the
\* reference is detached.
Teardown(dr, a) ==
    [EffectCleanUp(dr, [a EXCEPT !.steps = << >>])
        EXCEPT !.phase = "unmounted", !.ref = Null]

\* ----------------------------------------------------------------- actions

Due(a) == \E t \in a.timers : t.deadline <= now
AnyDue == \E dr \in Drafts : Due(ad[dr])
Room == /\ \A dr \in Drafts : Len(ad[dr].inst) < MaxCycles
        /\ now + Delay <= MaxTime

Init ==
    /\ now = 0
    /\ draw \in Draws
    /\ size = <<0, 0>>
    /\ motion \in Motions
    /\ ad = [dr \in Drafts |-> NewAdapter]

\* The component mounts with the reference bound to e (Null: the canvas is
\* not rendered yet); the passive effect on [ref] runs and, when it sets the
\* context, the second render commits the layout effect.
Mount(e, has2d) ==
    /\ \A dr \in Drafts : ad[dr].phase = "init"
    /\ Room
    /\ ad' = [dr \in Drafts |->
                LET m == RefEffect([ad[dr] EXCEPT !.phase = "mounted", !.ref = e], has2d)
                IN IF m.context # Null THEN Commit(dr, m, draw, size) ELSE m]
    /\ UNCHANGED <<now, draw, size, motion>>

\* useCanvasSize reports another size: a render with new width, height.
SizeChange(s) ==
    /\ s # size
    /\ \E dr \in Drafts : ad[dr].phase = "mounted"
    /\ ~AnyDue
    /\ Room
    /\ size' = s
    /\ ad' = [dr \in Drafts |->
                IF ad[dr].phase = "mounted" THEN Commit(dr, ad[dr], draw, s) ELSE ad[dr]]
    /\ UNCHANGED <<now, draw, motion>>

\* The caller passes another drawing method: a render with a new draw.
DrawChange(d) ==
    /\ d # draw
    /\ \E dr \in Drafts : ad[dr].phase = "mounted"
    /\ ~AnyDue
    /\ Room
    /\ draw' = d
    /\ ad' = [dr \in Drafts |->
                IF ad[dr].phase = "mounted" THEN Commit(dr, ad[dr], d, size) ELSE ad[dr]]
    /\ UNCHANGED <<now, size, motion>>

\* React attaches the reference to another element, or detaches it (Null).
\* No entry of a dependency list changes: ref is the same object.
Rebind(e) ==
    /\ \E dr \in Drafts : ad[dr].phase = "mounted" /\ ad[dr].ref # e
    /\ ~AnyDue
    /\ ad' = [dr \in Drafts |->
                IF ad[dr].phase = "mounted" THEN [ad[dr] EXCEPT !.ref = e] ELSE ad[dr]]
    /\ UNCHANGED <<now, draw, size, motion>>

\* The component unmounts.
Unmount ==
    /\ \E dr \in Drafts : ad[dr].phase = "mounted"
    /\ ~AnyDue
    /\ ad' = [dr \in Drafts |->
                IF ad[dr].phase = "mounted" THEN Teardown(dr, ad[dr]) ELSE ad[dr]]
    /\ UNCHANGED <<now, draw, size, motion>>

\* The user changes the motion preference.
MotionChange(m) ==
    /\ m # motion
    /\ ~AnyDue
    /\ motion' = m
    /\ UNCHANGED <<now, draw, size, ad>>

\* A timer whose time has come runs its callback.
Fire(dr) ==
    \E t \in ad[dr].timers :
        /\ t.deadline <= now
        /\ LET a == [ad[dr] EXCEPT !.timers = @ \ {t}] IN
           ad' = [ad EXCEPT ![dr] = IF dr = "inline" THEN InlineTimeout(a, t, motion)
                                                     ELSE DebounceTimeout(a, t, motion)]
        /\ UNCHANGED <<now, draw, size, motion>>

\* Time passes; a timer that is due runs before time passes further.
Tick ==
    /\ ~AnyDue
    /\ now + TickStep <= MaxTime
    /\ now' = now + TickStep
    /\ UNCHANGED <<draw, size, motion, ad>>

Next ==
    \/ \E e \in Elements \cup {Null}, has2d \in BOOLEAN : Mount(e, has2d)
    \/ \E s \in Sizes : SizeChange(s)
    \/ \E d \in Draws : DrawChange(d)
    \/ \E e \in Elements \cup {Null} : Rebind(e)
    \/ Unmount
    \/ \E m \in Motions : MotionChange(m)
    \/ \E dr \in Drafts : Fire(dr)
    \/ Tick

Spec == Init /\ [][Next]_vars

\* Time passes and the timer facility runs the callbacks that are due; the
\* renders (size, draw, reference, unmount) may stop at any point.
FairSpec == Spec /\ WF_vars(Tick) /\ \A dr \in Drafts : WF_vars(Fire(dr))

\* ------------------------------------------------------------ claim helpers

Fired(a, id) == \E i \in 1..Len(a.log) : a.log[i].op = "draw" /\ a.log[i].id = id

CleanUpCalls(a, id) ==
    Cardinality({i \in 1..Len(a.log) : a.log[i].op = "cleanUp" /\ a.log[i].id = id})

\* log[i] and log[j] are two draw calls with no draw call between them.
ConsecutiveDraws(a, i, j) ==
    /\ i < j
    /\ a.log[i].op = "draw"
    /\ a.log[j].op = "draw"
    /\ \A k \in (i + 1)..(j - 1) : a.log[k].op # "draw"

\* The cleanup returned by the draw call log[i] is called between log[i] and log[j].
CleanedBetween(a, i, j) ==
    \E k \in (i + 1)..(j - 1) : a.log[k].op = "cleanUp" /\ a.log[k].id = a.log[i].id

CleanUpBeforeNextDraw(a) ==
    \A i, j \in 1..Len(a.log) :
        (ConsecutiveDraws(a, i, j) /\ a.log[i].ret = "fn") => CleanedBetween(a, i, j)

\* ------------------------------------------------------------------ claims

\* C1: of two consecutive calls of the drawing method, the first of which
\* returned a cleanup routine, that cleanup routine is called after the first
\* call and before the second, in both drafts.  The function debounceDraw
\* returns never calls cleanUp, so the debounceDraw draft violates it.
C1_CleanUpBeforeNextDraw == \A dr \in Drafts : CleanUpBeforeNextDraw(ad[dr])

\* C2: a hook instance (debounceDraw draft) torn down while it holds the cleanup
\* routine returned by its latest draw call has called that routine exactly
\* once.  The debounceDraw draft never calls it.
C2_TeardownCallsCleanUp ==
    LET a == ad["debounce"] IN
    (a.phase = "unmounted" /\ Len(a.inst) > 0 /\ a.inst[Len(a.inst)].cleanUp.kind = "fn")
        => CleanUpCalls(a, Len(a.inst)) = 1

\* C3: an invocation that was still pending when a later redraw cycle
\* scheduled its successor never runs the drawing method and never captures a
\* cleanup routine: once superseded without having fired, it stays so.
C3_SupersededNeverFires ==
    [][\A dr \in Drafts : \A id \in 1..Len(ad[dr].inst) :
          (id < Len(ad[dr].inst) /\ ~Fired(ad[dr], id))
              => (~Fired(ad'[dr], id) /\ ad'[dr].inst[id].cleanUp = Unset)]_vars

\* C3 witness: invocation 1 was superseded while pending, its time has passed,
\* and its successor has fired, in both drafts.
C3_Witness ==
    \A dr \in Drafts :
        /\ Len(ad[dr].inst) >= 2
        /\ ~Fired(ad[dr], 1)
        /\ Fired(ad[dr], 2)

\* C4: in the debounceDraw draft, once a burst of redraw cycles (each less
\* than Delay after the one before) has been followed by Delay without another
\* cycle or a teardown, and the timer that is due has run, the drawing method
\* has been called exactly once since the burst began, with the width and
\* height of the last size update.
C4_BurstDrawsOnce ==
    LET a == ad["debounce"] IN
    (a.phase = "mounted" /\ a.context # Null /\ now >= a.lastTrigger + Delay /\ ~Due(a))
        => /\ a.burstFires = 1
           /\ Len(a.log) > 0
           /\ a.log[Len(a.log)].op = "draw"
           /\ <<a.log[Len(a.log)].w, a.log[Len(a.log)].h>> = size

\* C4 witness: three redraw cycles within one burst (the mount and two size
\* updates, the last to 305 x 152), then quiescence, and a single draw call
\* with the last size.
C4_Witness ==
    LET a == ad["debounce"] IN
    /\ a.phase = "mounted"
    /\ Len(a.inst) = 3
    /\ a.lastTrigger < Delay
    /\ now >= a.lastTrigger + Delay
    /\ a.burstFires = 1
    /\ Len(a.log) = 1
    /\ a.log[1].id = 3
    /\ a.log[1].draw = draw
    /\ <<a.log[1].w, a.log[1].h>> = <<305, 152>>
    /\ size = <<305, 152>>

\* C5: in the debounceDraw draft, after teardown no invocation is pending and
\* none is scheduled, and the drawing method is not called again.
C5_NoDrawAfterTeardown ==
    [][ad["debounce"].phase = "unmounted"
          => /\ ad["debounce"].timers = {}
             /\ ad'["debounce"].timers = {}
             /\ ad'["debounce"].log = ad["debounce"].log]_vars

\* C5 witness: the hook was torn down while its latest invocation was pending,
\* and the time at which that invocation would have fired has passed.
C5_Witness ==
    LET a == ad["debounce"] IN
    /\ a.phase = "unmounted"
    /\ Len(a.inst) > 0
    /\ ~Fired(a, Len(a.inst))
    /\ a.inst[Len(a.inst)].canceled
    /\ now >= a.lastTrigger + Delay

\* The invocations that are scheduled, have not fired and are not cancelled.
Pending(a) == {t \in a.timers : ~a.inst[t.id].canceled}

\* C6: in the debounceDraw draft at most one invocation is pending in every
\* reachable state; in particular in the state a redraw cycle leaves, where
\* the new invocation is scheduled and the previous one is cancelled.
C6_AtMostOnePending == Cardinality(Pending(ad["debounce"])) <= 1

\* C6 witness: the second redraw cycle has scheduled its invocation while the
\* first had not fired, and the first is cancelled.
C6_Witness ==
    LET a == ad["debounce"] IN
    /\ Len(a.inst) = 2
    /\ ~Fired(a, 1)
    /\ a.inst[1].canceled
    /\ Pending(a) # {}
    /\ \A t \in Pending(a) : t.id = 2

\* C7: no cleanup routine returned by a draw call is called more than once,
\* in either draft.
C7_CleanUpAtMostOnce ==
    \A dr \in Drafts : \A id \in 1..Len(ad[dr].inst) : CleanUpCalls(ad[dr], id) <= 1

\* C7 witness: a draw call returned a cleanup routine, it was called (inline
\* draft), and two further layout-effect cleanups have run since the draw.
C7_Witness ==
    LET a == ad["inline"] IN
    /\ CleanUpCalls(a, 1) = 1
    /\ Len(a.inst) = 3
    /\ a.phase = "unmounted"

\* C8: while the debounceDraw draft is mounted, the context it holds is that
\* of the element the reference is bound to, and it holds none when the
\* reference is null.  The effect that derives the context depends on [ref],
\* which never changes, so it runs once: a later binding is not followed.
C8_SurfaceFollowsRef ==
    LET a == ad["debounce"] IN
    a.phase = "mounted" => /\ a.ref = Null => a.context = Null
                           /\ a.context # Null => a.context = a.ref

\* C9: in the debounceDraw draft, in the state in which an invocation has
\* just been scheduled, the backing width and height of the canvas of the
\* context equal the size useCanvasSize reported in that render.
C9_CanvasSizedWhenScheduled ==
    [][\A t \in ad'["debounce"].timers \ ad["debounce"].timers :
          ad'["debounce"].canvas[t.ctx] = size']_vars

\* C9 witness: a size update to 305 x 152 has scheduled the second invocation,
\* and the canvas has that size, which it did not have at the start.
C9_Witness ==
    LET a == ad["debounce"] IN
    /\ Len(a.inst) = 2
    /\ \E t \in a.timers : t.id = 2 /\ a.canvas[t.ctx] = <<305, 152>>
    /\ size = <<305, 152>>

\* The latest invocation scheduled by the debounceDraw draft has called the
\* drawing method with the context c.
DrawnWith(c) ==
    LET a == ad["debounce"] IN
    \E i \in 1..Len(a.log) :
        a.log[i].op = "draw" /\ a.log[i].id = Len(a.inst) /\ a.log[i].ctx = c

\* C10: whenever the debounceDraw draft is mounted and holds the context of
\* element c, then, unless it is torn down, the drawing method is eventually
\* called with c by the invocation of the latest redraw cycle (the renders
\* being finitely many, that cycle is followed by no other).
C10_EventuallyDrawn ==
    \A c \in Elements :
        (ad["debounce"].phase = "mounted" /\ ad["debounce"].context = c)
            ~> (DrawnWith(c) \/ ad["debounce"].phase = "unmounted")

\* C10 witness: the hook is still mounted, two redraw cycles have happened,
\* and the invocation of the second has called the drawing method with the
\* context held.
C10_Witness ==
    LET a == ad["debounce"] IN
    /\ a.phase = "mounted"
    /\ a.context # Null
    /\ Len(a.inst) = 2
    /\ ~Fired(a, 1)
    /\ DrawnWith(a.context)

\* The latest entry of a log that has just grown by a draw call.
DrewNow(dr) ==
    /\ Len(ad'[dr].log) = Len(ad[dr].log) + 1
    /\ ad'[dr].log[Len(ad'[dr].log)].op = "draw"
LastCall(dr) == ad'[dr].log[Len(ad'[dr].log)]

\* C11: while a hook instance holds no context, a render with another size or
\* another drawing method changes nothing of it: no canvas size is assigned,
\* no invocation is scheduled, the drawing method is not called, no error is
\* raised.
C11_NoSurfaceNoCycle ==
    [][\A dr \in Drafts :
          (ad[dr].context = Null /\ (size' # size \/ draw' # draw))
              => ad'[dr] = ad[dr]]_vars

\* C11 witness: mounted on an element that gave no 2d context (or on none),
\* the size has changed, time has passed and nothing has happened.
C11_Witness ==
    \A dr \in Drafts :
        /\ ad[dr].phase = "mounted"
        /\ ad[dr].context = Null
        /\ size = <<305, 152>>
        /\ now >= Delay
        /\ ad[dr].timers = {}
        /\ ad[dr].log = << >>
        /\ ~ad[dr].error

\* C12: the prefersReducedMotion flag of a draw call is false when the
\* platform reports no preference for reduced motion at the time of the call,
\* and true when it reports a preference for reduced motion.  The query the
\* code asks is misspelt (no-preferece) and matches nothing, so the flag is
\* always true.
C12_FlagFollowsPreference ==
    [][\A dr \in Drafts :
          DrewNow(dr) => (LastCall(dr).prm <=> motion # "no-preference")]_vars

\* C13: the drawing method is called with three positional arguments: the
\* context, the width and the height, as README's drawRedCircle and
\* drawScanLine take them.  The code passes two: the context and one object.
C13_PositionalArguments ==
    \A i \in 1..Len(ad["debounce"].log) :
        LET e == ad["debounce"].log[i] IN
        e.op = "draw" => /\ Len(DrawArgs(e)) = 3
                         /\ DrawArgs(e)[1] = e.ctx
                         /\ DrawArgs(e)[2] = e.w
                         /\ DrawArgs(e)[3] = e.h

\* The places of a step in the record of the latest commit.
StepsAt(a, tag) == {i \in 1..Len(a.steps) : a.steps[i] = tag}

C15_NoDrawWithinDelay ==
    [][DrewNow("debounce") => now >= ad["debounce"].lastTrigger + Delay]_vars

\* C15 witness: a second redraw cycle arrived while the first invocation was
\* pending, and the second invocation fired Delay after it.
C15_Witness ==
    LET a == ad["debounce"] IN
    /\ Len(a.inst) = 2
    /\ a.lastTrigger > 0
    /\ a.lastTrigger < Delay
    /\ ~Fired(a, 1)
    /\ Fired(a, 2)
    /\ now = a.lastTrigger + Delay

DrawCalls(a, id) ==
    Cardinality({i \in 1..Len(a.log) : a.log[i].op = "draw" /\ a.log[i].id = id})

Throws(a) == {i \in 1..Len(a.log) : a.log[i].op = "draw" /\ a.log[i].ret = "throw"}

\* C16: in the debounceDraw draft, when the drawing method throws, the
\* exception leaves the timer callback uncaught, the closure holds no cleanup
\* routine, the invocation is not repeated, and a later redraw cycle of the
\* mounted hook schedules its invocation as any other.
C16_ThrowIsNotCaughtNorRetried ==
    LET a == ad["debounce"] IN
    /\ a.uncaught = Cardinality(Throws(a))
    /\ \A i \in Throws(a) :
          /\ a.inst[a.log[i].id].cleanUp = Unset
          /\ DrawCalls(a, a.log[i].id) = 1
          /\ \A t \in a.timers : t.id # a.log[i].id
          /\ (a.phase = "mounted" /\ Len(a.inst) > a.log[i].id)
                => \/ DrawCalls(a, Len(a.inst)) = 1
                   \/ \E t \in Pending(a) : t.id = Len(a.inst) /\ t.deadline = a.lastTrigger + Delay

\* C16 witness: the first invocation threw, a later size update scheduled the
\* second, and the second has drawn with the new size.
C16_Witness ==
    LET a == ad["debounce"] IN
    /\ a.phase = "mounted"
    /\ Len(a.log) = 2
    /\ a.log[1].ret = "throw"
    /\ a.log[2].id = 2
    /\ <<a.log[2].w, a.log[2].h>> # <<a.log[1].w, a.log[1].h>>
    /\ a.uncaught >= 1
    /\ a.timers = {}

\* The draw calls that returned a cleanup routine which has not been called.
Live(a) ==
    {i \in 1..Len(a.log) :
        a.log[i].op = "draw" /\ a.log[i].ret = "fn" /\ CleanUpCalls(a, a.log[i].id) = 0}

\* C17: in the debounceDraw draft at most one draw call is live in every
\* reachable state.  The cleanup routines are never called (C1), so every
\* draw call that returned one stays live.
C17_AtMostOneLive == Cardinality(Live(ad["debounce"])) <= 1

\* C18: in the debounceDraw draft every call of the drawing method calls the
\* drawing method of the latest render, with the context held, and with the
\* width and height that are both the size useCanvasSize reported last and
\* the backing size of the context's canvas.
C18_DrawUsesCurrentValues ==
    [][DrewNow("debounce") =>
          /\ LastCall("debounce").draw = draw
          /\ LastCall("debounce").ctx = ad["debounce"].context
          /\ <<LastCall("debounce").w, LastCall("debounce").h>> = size
          /\ ad["debounce"].canvas[LastCall("debounce").ctx] = size]_vars

\* C18 witness: after three redraw cycles the third invocation has drawn, with
\* the current drawing method on a canvas of the current size, which is not
\* the size of the first cycle.
C18_Witness ==
    LET a == ad["debounce"] IN
    /\ Len(a.inst) = 3
    /\ Len(a.log) = 2
    /\ a.log[1].id = 1
    /\ a.log[2].id = 3
    /\ a.log[2].draw = draw
    /\ a.log[2].draw # a.log[1].draw
    /\ <<a.log[2].w, a.log[2].h>> = size
    /\ <<a.log[1].w, a.log[1].h>> # size
    /\ a.canvas[a.context] = size

\* C19: the two drafts make the same draw calls and the same cleanup calls, in
\* the same order, whenever no timer is waiting to run.  They do not: the
\* inline draft calls the cleanup routine the debounceDraw draft never calls
\* (C1), and throws where a drawing method returned nothing.
C19_DraftsEquivalent ==
    ~AnyDue => ad["inline"].log = ad["debounce"].log

====
